---- MODULE Spec2Model ----
(***************************************************************************)
(* Model of app.py: the customs-statistics fetch / merge / reshape         *)
(* pipeline that runs when the "execute" button is pressed.                *)
(*                                                                         *)
(* Strings are sequences of one-character strings, so that strip, split,   *)
(* slice and digit extraction are computed and not assumed.  The Japanese  *)
(* column names and labels of the source are written in romaji:            *)
(*   HSコード = hscode, 品目 = hinmoku, 区分コード = kubun_code,            *)
(*   区分名 = kubunmei, 税関コード = zeikan_code, 税関 = zeikan,            *)
(*   国コード = kuni_code, 国名 = kunimei, 年コード = nen_code, 年 = nen,   *)
(*   月 = tsuki, 月数値 = tsuki_suuchi, 年月 = nengetsu, 区分 = kubun,      *)
(*   単位2 = tani2, 合計_金額 = goukei_kingaku,                            *)
(*   合計_数量1 = goukei_suuryou1, 合計_数量2 = goukei_suuryou2.           *)
(***************************************************************************)
EXTENDS Integers, Sequences, FiniteSets

VARIABLES
    uploaded_file,    \* the uploaded CSV (df_hscode once read)
    api_class_inf,    \* the CLASS_INF section the service attaches to its data
    pc,               \* position of the script
    st_error,         \* which fatal st.error / st.stop() ended the run
    hs_codes,         \* identifier list built by the reader
    i,                \* number of identifiers the loop has handled
    data_list,        \* cumulative value rows
    result,           \* retained envelope (None or a full response)
    processed_count,
    error_count,
    skipped_count,
    requests,         \* cdCat01 of every requests.get issued, in order
    responses,        \* what the service answered to each of them, in order
    merge_path,       \* branch taken by the metadata stage
    df_complete       \* the table handed from stage to stage

vars == <<uploaded_file, api_class_inf, pc, st_error, hs_codes, i, data_list,
          result, processed_count, error_count, skipped_count, requests,
          responses, merge_path, df_complete>>

(***************************************************************************)
(* Bounds of the model.                                                    *)
(***************************************************************************)
MaxFileRows == 2     \* data rows of the uploaded CSV
MaxValueRows == 1    \* rows of a VALUE list
MaxClassRows == 2    \* entries of a CLASS list

(***************************************************************************)
(* Strings.                                                                *)
(***************************************************************************)
\* A missing value (float NaN / pd.NA / NaT).  No string is equal to it.
NaN == <<"NaN">>

SeqsUpTo(S, n) == UNION {[1..k -> S] : k \in 0..n}

Whitespace == {" "}

DigitChars == <<"0", "1", "2", "3", "4", "5", "6", "7", "8", "9">>

IsDigit(c) == \E d \in 1..10 : DigitChars[d] = c

DigitValue(c) == (CHOOSE d \in 1..10 : DigitChars[d] = c) - 1

notna(v) == v # NaN

RECURSIVE lstrip(_)
lstrip(s) ==
    IF s # <<>> /\ Head(s) \in Whitespace THEN lstrip(Tail(s)) ELSE s

RECURSIVE rstrip(_)
rstrip(s) ==
    IF s # <<>> /\ s[Len(s)] \in Whitespace
    THEN rstrip(SubSeq(s, 1, Len(s) - 1))
    ELSE s

strip(s) == rstrip(lstrip(s))

\* Series.astype(str): a missing value becomes the text "nan".
astype_str(v) == IF notna(v) THEN v ELSE <<"n", "a", "n">>

(***************************************************************************)
(* Code Source Reader (lines 58-87).                                       *)
(***************************************************************************)
\* Series.unique(): first occurrences, in order; NaN is one value.
RECURSIVE unique(_)
unique(s) ==
    IF s = <<>> THEN <<>>
    ELSE LET u == unique(SubSeq(s, 1, Len(s) - 1))
             last == s[Len(s)]
         IN  IF \E k \in 1..Len(u) : u[k] = last THEN u ELSE Append(u, last)

\* mutant: the blank test of line 78 forgotten
IsValidCodeNotnaOnly(code) == notna(code)

\* the filter of line 78
IsValidCode(code) == notna(code) /\ strip(code) # <<>>

\* lines 77-78
ReadCodes(column) == SelectSeq(unique(column), IsValidCode)


\* the 品目 cell of data row k (labels are free text; one per row)
Hinmoku(k) == <<"h", DigitChars[k + 1]>>

RawCodes == {NaN, <<" ">>, <<"a">>, <<"a", " ">>}

File(readable, has_hscode, has_hinmoku, column) ==
    [readable |-> readable, has_hscode |-> has_hscode,
     has_hinmoku |-> has_hinmoku, hscode |-> column]

\* uploads: undecodable / empty payloads, files without the HSコード column,
\* and files with it (header-only files included: the column is <<>>)
Files ==
    {File(FALSE, FALSE, FALSE, <<>>), File(TRUE, FALSE, TRUE, <<>>)}
    \cup {File(TRUE, TRUE, TRUE, c) : c \in SeqsUpTo(RawCodes, MaxFileRows)}

\* uploads used when the classification metadata is varied: with and
\* without the 品目 column, with a repeated identifier, with two identifiers
MetaFiles ==
    {File(TRUE, TRUE, h, c) : h \in BOOLEAN, c \in {<<<<"a">>>>, <<<<"a">>, <<"a">>>>}}
    \cup {File(TRUE, TRUE, TRUE, <<<<"a">>, <<"a", " ">>>>)}

(***************************************************************************)
(* The statistics service (spec section 6): responses to one GET.          *)
(***************************************************************************)
\* one CLASS_OBJ: found with a CLASS key or not, and its CLASS list
ClassObj(present, class) == [present |-> present, class |-> class]

NoClassObj == ClassObj(FALSE, <<>>)

ClassEntry(code, name) == [code |-> code, name |-> name]

ClassInf(cat02, cat03, area) == [cat02 |-> cat02, cat03 |-> cat03, area |-> area]

NoClassInf == ClassInf(NoClassObj, NoClassObj, NoClassObj)

\* category names: a month label, a denylisted label that contains a digit,
\* a month out of range, a label without digits
KubunNames ==
    {<<"0", "1", "_", "E">>, <<"t", "a", "n", "i", "2">>,
     <<"1", "3", "_", "E">>, <<"E">>}

ZeikanCode == <<"z">>

KuniCode == <<"k">>

\* country names: with the code prefix and without any underscore
KuniNames == {<<"1", "_", "J">>, <<"J">>}

Cat02Objs ==
    {NoClassObj}
    \cup {ClassObj(TRUE, c) :
            c \in SeqsUpTo({ClassEntry(<<"1">>, n) : n \in KubunNames}, MaxClassRows)}

Cat03Objs ==
    {NoClassObj}
    \cup {ClassObj(TRUE, c) :
            c \in SeqsUpTo({ClassEntry(ZeikanCode, <<"Z">>)}, MaxClassRows)}

AreaObjs ==
    {NoClassObj}
    \cup {ClassObj(TRUE, c) :
            c \in SeqsUpTo({ClassEntry(KuniCode, n) : n \in KuniNames}, MaxClassRows)}

StdCat02 == ClassObj(TRUE, <<ClassEntry(<<"1">>, <<"0", "1", "_", "E">>)>>)

StdCat03 == ClassObj(TRUE, <<ClassEntry(ZeikanCode, <<"Z">>)>>)

StdArea == ClassObj(TRUE, <<ClassEntry(KuniCode, <<"1", "_", "J">>)>>)

\* metadata sections: the category table varied, or the other two varied
ClassInfs ==
    {ClassInf(c, StdCat03, StdArea) : c \in Cat02Objs}
    \cup {ClassInf(StdCat02, z, a) : z \in Cat03Objs, a \in AreaObjs}

\* metadata sections used when the uploads are varied
StdClassInfs ==
    {ClassInf(StdCat02, StdCat03, StdArea),
     ClassInf(ClassObj(TRUE, <<ClassEntry(<<"1">>, <<"t", "a", "n", "i", "2">>)>>),
              StdCat03, StdArea)}

\* a VALUE row (the fields the pipeline reads)
ValueRow(cat01, cat02, time) ==
    [cat01 |-> cat01, cat02 |-> cat02, cat03 |-> ZeikanCode, area |-> KuniCode,
     time |-> time]

\* rows the service may return for cdCat01 = code
ValueRowsFor(code) ==
    {ValueRow(code, <<"1">>, <<"2", "0", "2", "3", "0", "0">>),
     ValueRow(code, <<"2">>, <<"2", "0", "2", "3", "0", "0">>),
     ValueRow(code, <<"1">>, <<"x">>)}

Response(body, has_envelope, has_result, has_status, status, depth, value, has_class_inf, class_inf) ==
    [body |-> body, has_envelope |-> has_envelope, has_result |-> has_result,
     has_status |-> has_status, status |-> status,
     value_depth |-> depth,   \* 0: no STATISTICAL_DATA, 1: no DATA_INF, 2: no VALUE, 3: VALUE
     value |-> value, has_class_inf |-> has_class_inf, class_inf |-> class_inf]

\* the initial value of result (line 91)
None == Response("None", FALSE, FALSE, FALSE, 0, 0, <<>>, FALSE, NoClassInf)

\* everything the service (or the network) may answer to the GET for code
Responses(code, class_inf) ==
    {Response(b, FALSE, FALSE, FALSE, 0, 0, <<>>, FALSE, NoClassInf) :
        b \in {"transport_error", "non_json", "null"}}
    \cup {Response("dict", FALSE, FALSE, FALSE, 0, 0, <<>>, FALSE, NoClassInf),
          Response("dict", TRUE, FALSE, FALSE, 0, 0, <<>>, FALSE, NoClassInf),
          Response("dict", TRUE, TRUE, FALSE, 0, 0, <<>>, FALSE, NoClassInf),
          Response("dict", TRUE, TRUE, TRUE, 1, 0, <<>>, FALSE, NoClassInf)}
    \cup {Response("dict", TRUE, TRUE, TRUE, 0, d, <<>>, FALSE, NoClassInf) : d \in 0..2}
    \cup {Response("dict", TRUE, TRUE, TRUE, 0, 3, v, FALSE, NoClassInf) :
            v \in SeqsUpTo(ValueRowsFor(code), MaxValueRows)}
    \cup {Response("dict", TRUE, TRUE, TRUE, 0, 3, v, TRUE, class_inf) :
            v \in SeqsUpTo(ValueRowsFor(code), MaxValueRows)}

(***************************************************************************)
(* The fetch loop (lines 90-159).                                          *)
(***************************************************************************)
\* which branch of the loop body handles a response
FetchBranch(res) ==
    IF res.body = "transport_error" THEN "RequestException"      \* line 145
    ELSE IF res.body = "non_json" THEN "JSONDecodeError"         \* line 149
    ELSE IF res.body = "null" THEN "Exception"                   \* line 153
    ELSE IF ~res.has_envelope THEN "bad_format"                  \* line 109
    ELSE IF ~res.has_result \/ ~res.has_status THEN "no_status"  \* line 116
    ELSE IF res.status = 0
         THEN IF res.value_depth = 3 THEN "value"                \* line 124
              ELSE "no_value"                                    \* line 131
         ELSE "api_error"                                        \* line 139

\* mutant: the API-error branch forgets its counter
CountedNoApiError(branch) ==
    CASE branch = "value" -> "processed"
      [] branch \in {"bad_format", "no_status", "no_value"} -> "skipped"
      [] branch \in {"RequestException", "JSONDecodeError", "Exception"} -> "error"
      [] OTHER -> "none"

\* the counter each branch increments
Counted(branch) ==
    CASE branch = "value" -> "processed"
      [] branch \in {"bad_format", "no_status", "no_value"} -> "skipped"
      [] branch \in {"api_error", "RequestException", "JSONDecodeError", "Exception"}
            -> "error"

\* lines 125-127
AppendRows(list, res) ==
    IF FetchBranch(res) = "value" THEN list \o res.value ELSE list

\* mutant: the envelope is kept only when it carries metadata
RetainIfClassInf(kept, res) ==
    IF FetchBranch(res) = "value" /\ res.has_class_inf THEN res ELSE kept

\* line 129
Retain(kept, res) ==
    IF FetchBranch(res) = "value" THEN res ELSE kept

\* mutant: a transport error leaves the loop
NextIndexBreak(k, res) ==
    IF res.body = "transport_error" THEN Len(hs_codes) ELSE k + 1

\* the for statement: every branch, continue included, moves to the next code
NextIndex(k, res) == k + 1

\* mutant: the check looks at the retained envelope, not at the rows
NoDataByResult(list) == result = None

\* line 163
NoData(list) == list = <<>>


\* one counter after the branch taken for res
Bump(count, name, res) ==
    IF Counted(FetchBranch(res)) = name THEN count + 1 ELSE count

(***************************************************************************)
(* Tables.  A DataFrame is its set of columns and its rows; a row carries  *)
(* every field, NaN where the frame has no such column or no value.        *)
(***************************************************************************)
Frame(columns, rows) == [columns |-> columns, rows |-> rows]

EmptyFrame == Frame({}, <<>>)

\* lines 167-172: a VALUE row under its long column names
Renamed(row) ==
    [hscode |-> row.cat01, kubun_code |-> row.cat02, zeikan_code |-> row.cat03,
     kuni_code |-> row.area, nen_code |-> row.time,
     kubunmei |-> NaN, zeikan |-> NaN, kunimei |-> NaN, nen |-> NaN,
     hinmoku |-> NaN, tsuki |-> NaN, kubun |-> NaN, nengetsu |-> NaN]

RenamedColumns == {"hscode", "kubun_code", "zeikan_code", "kuni_code", "nen_code"}

\* df = pd.DataFrame(data_list) with the renamed columns
df == Frame(RenamedColumns, [k \in 1..Len(data_list) |-> Renamed(data_list[k])])

(***************************************************************************)
(* Metadata Resolver (lines 177-237).                                      *)
(***************************************************************************)
\* the entries of a lookup table whose code equals key, in table order
RECURSIVE Matching(_, _)
Matching(key, right) ==
    IF right = <<>> THEN <<>>
    ELSE (IF Head(right).code = key THEN <<Head(right)>> ELSE <<>>)
         \o Matching(key, Tail(right))

\* pd.merge(rows, right, on=on, how='left'), the name of right in column:
\* one output row per matching entry, one row with a missing value if none
RECURSIVE merge_left(_, _, _, _)
merge_left(rows, right, on, column) ==
    IF rows = <<>> THEN <<>>
    ELSE LET row == Head(rows)
             found == Matching(row[on], right)
         IN  (IF found = <<>> THEN <<row>>
              ELSE [k \in 1..Len(found) |-> [row EXCEPT ![column] = found[k].name]])
             \o merge_left(Tail(rows), right, on, column)

\* DataFrame.drop_duplicates(subset=[code]): the first entry of each code
RECURSIVE drop_duplicates(_)
drop_duplicates(table) ==
    IF table = <<>> THEN <<>>
    ELSE LET kept == drop_duplicates(SubSeq(table, 1, Len(table) - 1))
             last == table[Len(table)]
         IN  IF \E k \in 1..Len(kept) : kept[k].code = last.code
             THEN kept ELSE Append(kept, last)

\* str.split('_', n=1): the text before the first underscore
RECURSIVE split_0(_)
split_0(s) ==
    IF s = <<>> \/ Head(s) = "_" THEN <<>> ELSE <<Head(s)>> \o split_0(Tail(s))

\* str.split('_', n=1): the text after the first underscore, missing if none
RECURSIVE split_1(_)
split_1(s) ==
    IF s = <<>> THEN NaN
    ELSE IF Head(s) = "_" THEN Tail(s)
    ELSE split_1(Tail(s))

\* lines 185-187, 190-196: the category lookup table (empty if not found)
cat02_shrink(class_inf) ==
    IF class_inf.cat02.present THEN class_inf.cat02.class ELSE <<>>

\* lines 199-205
zeikan_shrink(class_inf) ==
    IF class_inf.cat03.present THEN class_inf.cat03.class ELSE <<>>

\* lines 208-216: country names lose their code prefix
country_shrink(class_inf) ==
    IF class_inf.area.present
    THEN [k \in 1..Len(class_inf.area.class) |->
            [class_inf.area.class[k] EXCEPT !.name = split_1(@)]]
    ELSE <<>>

\* a CLASS list without entries gives a frame without columns, and selecting
\* the renamed columns from it raises KeyError (lines 194, 203, 212)
ShrinkRaises(class_inf) ==
    \/ class_inf.cat02.present /\ class_inf.cat02.class = <<>>
    \/ class_inf.cat03.present /\ class_inf.cat03.class = <<>>
    \/ class_inf.area.present /\ class_inf.area.class = <<>>

\* Series.str.slice(0, 4)
slice_0_4(s) == SubSeq(s, 1, IF Len(s) < 4 THEN Len(s) ELSE 4)

RECURSIVE StripZeros(_)
StripZeros(s) ==
    IF Len(s) > 1 /\ Head(s) = "0" THEN StripZeros(Tail(s)) ELSE s

\* pd.to_numeric(errors='coerce') as Int64, written back in decimal
to_numeric(s) ==
    IF s # <<>> /\ \A k \in 1..Len(s) : IsDigit(s[k]) THEN StripZeros(s) ELSE NaN

\* line 224-225: the year of every row
WithNen(rows) ==
    [k \in 1..Len(rows) |-> [rows[k] EXCEPT !.nen = to_numeric(slice_0_4(rows[k].nen_code))]]

\* line 230: df_hscode[['HSコード', '品目']].astype(str).drop_duplicates(...)
hscode_merge(file) ==
    drop_duplicates([k \in 1..Len(file.hscode) |->
        [code |-> astype_str(file.hscode[k]), name |-> astype_str(Hinmoku(k))]])

\* lines 221-231: the four left joins
df_merged_4(rows, class_inf, file) ==
    merge_left(
        WithNen(merge_left(
            merge_left(
                merge_left(rows, cat02_shrink(class_inf), "kubun_code", "kubunmei"),
                zeikan_shrink(class_inf), "zeikan_code", "zeikan"),
            country_shrink(class_inf), "kuni_code", "kunimei")),
        hscode_merge(file), "hscode", "hinmoku")

MergedColumns ==
    RenamedColumns \cup {"kubunmei", "zeikan", "kunimei", "nen", "hinmoku"}

\* the branch of lines 177-237 taken for a retained envelope and an upload
MergePath(kept, file) ==
    IF kept = None THEN "no_response"                          \* line 177
    ELSE IF kept.value_depth = 0 \/ ~kept.has_class_inf
         THEN "no_class_inf"                                   \* line 179
    ELSE IF ShrinkRaises(kept.class_inf) \/ ~file.has_hinmoku
         THEN "merge_error"                                    \* line 234
    ELSE "merged"                                              \* line 233

(***************************************************************************)
(* Shaper (lines 240-307).                                                 *)
(***************************************************************************)
\* mutant: a denylist entry is missing
exclude_values_short ==
    {<<"g", "o", "u", "k", "e", "i", "_", "k", "i", "n", "g", "a", "k", "u">>,
     <<"g", "o", "u", "k", "e", "i", "_", "s", "u", "u", "r", "y", "o", "u", "1">>,
     <<"g", "o", "u", "k", "e", "i", "_", "s", "u", "u", "r", "y", "o", "u", "2">>}

\* line 252
exclude_values ==
    {<<"t", "a", "n", "i", "2">>,
     <<"g", "o", "u", "k", "e", "i", "_", "k", "i", "n", "g", "a", "k", "u">>,
     <<"g", "o", "u", "k", "e", "i", "_", "s", "u", "u", "r", "y", "o", "u", "1">>,
     <<"g", "o", "u", "k", "e", "i", "_", "s", "u", "u", "r", "y", "o", "u", "2">>}

\* lines 251-253: rows that keep their place
KeepKubun(row) == notna(row.kubunmei) /\ row.kubunmei \notin exclude_values

\* the digits at the head of s
RECURSIVE DigitRun(_)
DigitRun(s) ==
    IF s # <<>> /\ IsDigit(Head(s)) THEN <<Head(s)>> \o DigitRun(Tail(s)) ELSE <<>>

\* str.extract(r'(\d+)'): the first run of digits, missing if there is none
RECURSIVE extract_digits(_)
extract_digits(s) ==
    IF s = <<>> THEN NaN
    ELSE IF IsDigit(Head(s)) THEN DigitRun(s)
    ELSE extract_digits(Tail(s))

\* line 260: 月数値, an Int64 written in decimal
tsuki_suuchi(row) ==
    IF notna(row.tsuki) /\ notna(extract_digits(row.tsuki))
    THEN StripZeros(extract_digits(row.tsuki))
    ELSE NaN

RECURSIVE IntValue(_)
IntValue(s) ==
    IF s = <<>> THEN 0
    ELSE 10 * IntValue(SubSeq(s, 1, Len(s) - 1)) + DigitValue(s[Len(s)])

\* lines 264-267: pd.to_datetime(year-month-01, errors='coerce'); a four-digit
\* year and a month of the calendar give a date, anything else NaT
to_datetime(nen, suuchi) ==
    IF Len(nen) = 4 /\ Len(suuchi) <= 2 /\ IntValue(suuchi) \in 1..12
    THEN nen \o <<"-">> \o suuchi \o <<"-", "0", "1">>
    ELSE NaN

\* lines 255-257: 月 and 区分 of a row
WithSplit(row) ==
    [row EXCEPT !.tsuki = split_0(row.kubunmei), !.kubun = split_1(row.kubunmei)]

\* lines 263-268: the row has a year, a month number and a date
HasNengetsu(row) ==
    /\ notna(row.nen)
    /\ notna(tsuki_suuchi(row))
    /\ notna(to_datetime(row.nen, tsuki_suuchi(row)))

WithNengetsu(row) ==
    [row EXCEPT !.nengetsu = to_datetime(row.nen, tsuki_suuchi(row))]

\* line 273: the 区分名 column is dropped
DropKubunmei(row) == [row EXCEPT !.kubunmei = NaN]

Map(rows, Op(_)) == [k \in 1..Len(rows) |-> Op(rows[k])]

\* lines 294-298
final_cols_order ==
    {"hscode", "hinmoku", "nen", "tsuki", "nengetsu", "kubun", "kuni_code",
     "kunimei", "zeikan_code", "zeikan"}

\* lines 250-273: filter and derive, only for a frame with a 区分名 column
ShapeKubun(frame) ==
    IF "kubunmei" \in frame.columns
    THEN LET split == Map(SelectSeq(frame.rows, KeepKubun), WithSplit)
         IN  IF "nen" \in frame.columns
             THEN Frame((frame.columns \cup {"tsuki", "kubun", "nengetsu"}) \ {"kubunmei"},
                        Map(Map(SelectSeq(split, HasNengetsu), WithNengetsu), DropKubunmei))
             ELSE Frame((frame.columns \cup {"tsuki", "kubun", "tsuki_suuchi"}) \ {"kubunmei"},
                        Map(split, DropKubunmei))
    ELSE frame

\* lines 276-300: drop 年コード, keep the final columns that exist
Shaped(frame) ==
    LET shaped == ShapeKubun(frame)
    IN  Frame(shaped.columns \cap final_cols_order,
              [k \in 1..Len(shaped.rows) |-> [shaped.rows[k] EXCEPT !.nen_code = NaN]])

(***************************************************************************)
(* Initial states.                                                         *)
(***************************************************************************)
Start(files, class_infs) ==
    /\ uploaded_file \in files
    /\ api_class_inf \in class_infs
    /\ pc = "load"
    /\ st_error = "none"
    /\ hs_codes = <<>>
    /\ i = 0
    /\ data_list = <<>>
    /\ result = None
    /\ processed_count = 0
    /\ error_count = 0
    /\ skipped_count = 0
    /\ requests = <<>>
    /\ responses = <<>>
    /\ merge_path = "none"
    /\ df_complete = EmptyFrame

\* every upload, against a service with well-formed metadata
Init == Start(Files, StdClassInfs)

\* a few uploads, against every metadata section
InitMeta == Start(MetaFiles, ClassInfs)

(***************************************************************************)
(* Actions.                                                                *)
(***************************************************************************)
\* lines 58-87: read the upload, validate it, build hs_codes
LoadCodes ==
    /\ pc = "load"
    /\ IF ~uploaded_file.readable
       THEN /\ st_error' = "read_error"                       \* lines 69-71
            /\ pc' = "stopped"
            /\ hs_codes' = hs_codes
       ELSE IF ~uploaded_file.has_hscode
       THEN /\ st_error' = "no_hscode_column"                 \* lines 73-75
            /\ pc' = "stopped"
            /\ hs_codes' = hs_codes
       ELSE IF ReadCodes(uploaded_file.hscode) = <<>>
       THEN /\ st_error' = "no_valid_codes"                   \* lines 79-81
            /\ pc' = "stopped"
            /\ hs_codes' = hs_codes
       ELSE /\ hs_codes' = ReadCodes(uploaded_file.hscode)
            /\ pc' = "fetch"
            /\ st_error' = st_error
    /\ UNCHANGED <<uploaded_file, api_class_inf, i, data_list, result,
                   processed_count, error_count, skipped_count, requests,
                   responses, merge_path, df_complete>>

\* lines 100-159: one iteration of the loop, for the code at position i
Fetch ==
    /\ pc = "fetch"
    /\ i < Len(hs_codes)
    /\ \E res \in Responses(hs_codes[i + 1], api_class_inf) :
          /\ requests' = Append(requests, hs_codes[i + 1])
          /\ responses' = Append(responses, res)
          /\ data_list' = AppendRows(data_list, res)
          /\ result' = Retain(result, res)
          /\ processed_count' = Bump(processed_count, "processed", res)
          /\ skipped_count' = Bump(skipped_count, "skipped", res)
          /\ error_count' = Bump(error_count, "error", res)
          /\ i' = NextIndex(i, res)
    /\ UNCHANGED <<uploaded_file, api_class_inf, pc, st_error, hs_codes,
                   merge_path, df_complete>>

\* lines 161-175: the loop is over; stop without data, else build df
NoDataCheck ==
    /\ pc = "fetch"
    /\ i >= Len(hs_codes)
    /\ IF NoData(data_list)
       THEN /\ st_error' = "no_data"
            /\ pc' = "stopped"
            /\ df_complete' = df_complete
       ELSE /\ df_complete' = df
            /\ pc' = "merge"
            /\ st_error' = st_error
    /\ UNCHANGED <<uploaded_file, api_class_inf, hs_codes, i, data_list, result,
                   processed_count, error_count, skipped_count, requests,
                   responses, merge_path>>

\* lines 177-237: join the lookup tables onto df, or keep df
Metadata ==
    /\ pc = "merge"
    /\ merge_path' = MergePath(result, uploaded_file)
    /\ df_complete' =
          IF MergePath(result, uploaded_file) = "merged"
          THEN Frame(MergedColumns,
                     df_merged_4(df.rows, result.class_inf, uploaded_file))
          ELSE df
    /\ pc' = "shape"
    /\ UNCHANGED <<uploaded_file, api_class_inf, st_error, hs_codes, i,
                   data_list, result, processed_count, error_count,
                   skipped_count, requests, responses>>

\* lines 240-307: reshape the table
Shape ==
    /\ pc = "shape"
    /\ df_complete' = Shaped(df_complete)
    /\ pc' = "display"
    /\ UNCHANGED <<uploaded_file, api_class_inf, st_error, hs_codes, i,
                   data_list, result, processed_count, error_count,
                   skipped_count, requests, responses, merge_path>>

\* lines 310-351: show the summary and the table, offer the CSV
Display ==
    /\ pc = "display"
    /\ pc' = "done"
    /\ UNCHANGED <<uploaded_file, api_class_inf, st_error, hs_codes, i,
                   data_list, result, processed_count, error_count,
                   skipped_count, requests, responses, merge_path, df_complete>>

Next == LoadCodes \/ Fetch \/ NoDataCheck \/ Metadata \/ Shape \/ Display

Spec == Init /\ [][Next]_vars

SpecMeta == InitMeta /\ [][Next]_vars


(***************************************************************************)
(* Properties.                                                             *)
(***************************************************************************)
\* the Outcome of a response as section 4.2 of the specification names it
\* (an exception outside the listed ones is "Unexpected")
Outcome(res) ==
    IF res.body = "transport_error" THEN "TransportError"
    ELSE IF res.body = "non_json" THEN "ParseError"
    ELSE IF res.body = "null" THEN "Unexpected"
    ELSE IF ~res.has_envelope \/ ~res.has_result \/ ~res.has_status
         THEN "MalformedResponse"
    ELSE IF res.status # 0 THEN "ApiError"
    ELSE IF res.value_depth = 3 /\ res.value # <<>> THEN "Success"
    ELSE "EmptyResult"

\* the positions of the identifiers whose Outcome is in kinds
Handled(kinds) == {k \in 1..Len(responses) : Outcome(responses[k]) \in kinds}

LoopFinished == pc \in {"merge", "shape", "display", "done"} \/ st_error = "no_data"

LaterStage == pc \in {"merge", "shape", "display", "done"}

CountersSum ==
    /\ processed_count + skipped_count + error_count = Len(responses)
    /\ Len(responses) = i
    /\ LoopFinished =>
          processed_count + skipped_count + error_count = Len(hs_codes)

\* the counters move only when an identifier is handled, and then exactly
\* one of them moves, by one
OneCounterPerCode ==
    LET moved == <<processed_count' - processed_count,
                   skipped_count' - skipped_count,
                   error_count' - error_count>>
    IN  IF Len(responses') = Len(responses) + 1
        THEN moved \in {<<1, 0, 0>>, <<0, 1, 0>>, <<0, 0, 1>>}
        ELSE moved = <<0, 0, 0>>

\* C1: after the k-th identifier has been handled the three counters sum to
\* exactly k (each iteration increments exactly one counter by exactly 1),
\* and when the loop has finished they sum to the number of identifiers.
C1_CountersSum == [](CountersSum) /\ [][OneCounterPerCode]_vars

C1_Witness ==
    pc = "done" /\ Len(hs_codes) = 2 /\ processed_count = 1 /\ error_count = 1

\* C2: if no identifier's outcome is a Success, the run ends with the no-data
\* error after the loop and no later stage is reached; the no-data error is
\* raised only once every identifier was attempted.
C2_NoDataIsFatal ==
    /\ (Handled({"Success"}) = {} /\ pc \notin {"load", "fetch"} /\ hs_codes # <<>>)
          => (pc = "stopped" /\ st_error = "no_data")
    /\ LaterStage => Handled({"Success"}) # {}
    /\ st_error = "no_data" => Len(responses) = Len(hs_codes)

C2_Witness ==
    /\ st_error = "no_data"
    /\ Len(responses) = 2
    /\ Outcome(responses[1]) = "EmptyResult"
    /\ Outcome(responses[2]) = "ApiError"

\* C3: one GET per identifier, in list order, each answered before the next
\* is sent; no outcome stops the loop or repeats a request, so a finished
\* loop has issued exactly the identifier list.
C3_OneRequestPerCode ==
    /\ Len(requests) <= Len(hs_codes)
    /\ requests = SubSeq(hs_codes, 1, Len(requests))
    /\ Len(responses) = Len(requests)
    /\ LoopFinished => requests = hs_codes

C3_Witness ==
    /\ pc = "done"
    /\ Len(requests) = 2
    /\ Outcome(responses[1]) = "TransportError"
    /\ Outcome(responses[2]) = "Success"

\* a cell that is a usable identifier: not null and not only whitespace
Usable(cell) == cell # NaN /\ \E k \in 1..Len(cell) : cell[k] \notin Whitespace

BadInput ==
    \/ ~uploaded_file.has_hscode
    \/ \A k \in 1..Len(uploaded_file.hscode) : ~Usable(uploaded_file.hscode[k])

\* C4: an upload without the identifier column, or without any non-null,
\* non-blank identifier, ends the run with an input-format error, and no
\* HTTP request is issued in that run.
C4_BadInputStopsBeforeRequests ==
    BadInput =>
        /\ requests = <<>>
        /\ pc \in {"load", "stopped"}
        /\ pc = "stopped" =>
              st_error \in {"read_error", "no_hscode_column", "no_valid_codes"}

C4_Witness ==
    /\ pc = "stopped"
    /\ st_error = "no_valid_codes"
    /\ Len(uploaded_file.hscode) = 2
    /\ requests = <<>>

\* C5: the identifier list holds each distinct trimmed, non-empty identifier
\* of the column exactly once: no two entries are equal after trimming and
\* no entry is null or blank.
C5_UniqueAfterTrimming ==
    pc \notin {"load", "stopped"} =>
        /\ \A k \in 1..Len(hs_codes) : Usable(hs_codes[k])
        /\ \A k, m \in 1..Len(hs_codes) :
              strip(hs_codes[k]) = strip(hs_codes[m]) => k = m
        /\ \A k \in 1..Len(uploaded_file.hscode) :
              Usable(uploaded_file.hscode[k]) =>
                 \E m \in 1..Len(hs_codes) :
                    strip(hs_codes[m]) = strip(uploaded_file.hscode[k])

\* C6: the four left joins neither drop nor duplicate rows: as many rows
\* leave them as entered.
C6_JoinKeepsRowCount ==
    (pc = "shape" /\ merge_path = "merged") =>
        Len(df_complete.rows) = Len(data_list)

\* the category label a row of the final table was shaped from
LabelOf(row) ==
    IF notna(row.kubun) THEN row.tsuki \o <<"_">> \o row.kubun ELSE row.tsuki

C7_Denylist ==
    {<<"t", "a", "n", "i", "2">>,
     <<"g", "o", "u", "k", "e", "i", "_", "k", "i", "n", "g", "a", "k", "u">>,
     <<"g", "o", "u", "k", "e", "i", "_", "s", "u", "u", "r", "y", "o", "u", "1">>,
     <<"g", "o", "u", "k", "e", "i", "_", "s", "u", "u", "r", "y", "o", "u", "2">>}

RowWasShaped(row) ==
    /\ notna(row.tsuki)
    /\ LabelOf(row) \notin C7_Denylist
    /\ notna(row.nengetsu)

\* C7 (as claimed): on every path to the final table, each of its rows had a
\* non-null category label outside the denylist and a year-month date.
C7_EveryPathShaped ==
    pc \in {"display", "done"} =>
        \A k \in 1..Len(df_complete.rows) : RowWasShaped(df_complete.rows[k])

\* C7 (amended): that holds when the metadata merge succeeded; when the
\* retained envelope has no metadata section or the merge failed, the final
\* table is the pre-merge table, every row kept and none given a label or a
\* date.
C7_ShapedWhenMerged ==
    pc \in {"display", "done"} =>
        IF merge_path = "merged"
        THEN \A k \in 1..Len(df_complete.rows) : RowWasShaped(df_complete.rows[k])
        ELSE /\ merge_path \in {"no_class_inf", "merge_error"}
             /\ Len(df_complete.rows) = Len(data_list)
             /\ \A k \in 1..Len(df_complete.rows) :
                   ~notna(df_complete.rows[k].tsuki) /\ ~notna(df_complete.rows[k].nengetsu)

C7_Witness ==
    /\ pc = "done"
    /\ merge_path = "merged"
    /\ Len(result.class_inf.cat02.class) = 2
    /\ Len(data_list) = 1
    /\ Len(df_complete.rows) = 1

\* the counter the mapping of section 4.3 gives an Outcome
MappedCounter(outcome) ==
    CASE outcome = "Success" -> "processed"
      [] outcome \in {"EmptyResult", "MalformedResponse"} -> "skipped"
      [] outcome \in {"TransportError", "ParseError", "ApiError", "Unexpected"}
            -> "error"

CountOf(name) ==
    Cardinality({k \in 1..Len(responses) : MappedCounter(Outcome(responses[k])) = name})

\* C8: every outcome increments the counter of the mapping; a status-0
\* response without value rows (list missing or empty) is skipped, never
\* processed.
C8_CountersFollowMapping ==
    /\ processed_count = CountOf("processed")
    /\ skipped_count = CountOf("skipped")
    /\ error_count = CountOf("error")

\* the rows of the Success responses among the first n, in order
RECURSIVE SuccessRows(_)
SuccessRows(n) ==
    IF n = 0 THEN <<>>
    ELSE SuccessRows(n - 1)
         \o (IF Outcome(responses[n]) = "Success" THEN responses[n].value ELSE <<>>)

\* C9: the retained envelope is the response of the most recent Success (None
\* if there is none), and the cumulative rows are those of the Successes, in
\* order; other outcomes change neither.
C9_LastSuccessRetained ==
    /\ result = (IF Handled({"Success"}) = {} THEN None
                 ELSE responses[CHOOSE k \in Handled({"Success"}) :
                                   \A m \in Handled({"Success"}) : m <= k])
    /\ data_list = SuccessRows(Len(responses))

\* C10: past the no-data check the retained envelope is present and
\* processed >= 1: rows without a retained envelope are unreachable and the
\* metadata stage never takes its "no valid API response" branch.
C10_RowsImplyEnvelope ==
    /\ data_list # <<>> => (result # None /\ processed_count >= 1)
    /\ LaterStage => (result # None /\ processed_count >= 1)
    /\ merge_path # "no_response"

C10_Witness ==
    /\ pc = "shape"
    /\ Len(responses) = 2
    /\ Outcome(responses[1]) = "Success"
    /\ Outcome(responses[2]) = "ApiError"
    /\ result = responses[1]

====
